---- MODULE Spec2Model ----
(***************************************************************************)
(* Model of tpp-bot-beard: the refreshing card cache FreshData<D>          *)
(* (src/src/main.rs:47-77), the operations that read it (filter_cards,     *)
(* autocomplete_search, check_deck) and the deck fetch                     *)
(* (src/src/duelingbook.rs:57-73).                                         *)
(*                                                                         *)
(* Time is a discrete, non-decreasing clock.  The cached Vec<CardDatum> is *)
(* identified by the number of the producer call that returned it (0 is    *)
(* the call made by FreshData::new).  The tokio RwLock is modelled with    *)
(* its FIFO wait queue: a writer needs the lock free of readers and        *)
(* writers, a reader needs it free of writers, and requests are granted in *)
(* arrival order.                                                          *)
(***************************************************************************)
EXTENDS Integers, Sequences, FiniteSets, TLC

\* ------------------------------------------------------------------ bounds
\* The refresh interval (FreshData.frequency), in clock ticks.  FreshData takes
\* any interval; main passes 15 minutes.
Frequency == 2
\* The clock stops advancing at MaxTime.
MaxTime == 4
\* At most MaxCalls producer calls are made by get() in one behaviour: no
\* operation is started that could make one more.
MaxCalls == 2

Tasks == {"t1", "t2", "t3"}
NoTask == "none"
Ops == {"filter_cards", "check_deck"}

\* ------------------------------------------------------------------ text
\* A string is a sequence of characters.  Longest search query enumerated.
MaxQueryLen == 3
\* Longest snapshot (Vec<CardDatum>) enumerated.
MaxCards == 2

\* The characters search queries are built from: letters of both cases, a
\* disallowed punctuation character, the replacement character, the term
\* separator and a blank.
QueryChars == {"a", "B", "'", "_", "*", " "}
\* Option<&str>.
None == [some |-> FALSE, str |-> <<>>]
Some(str) == [some |-> TRUE, str |-> str]

StringsUpTo(chars, n) == UNION {[1..k -> chars] : k \in 0..n}

\* The character class of DISALLOWED_CHARACTERS.
Disallowed == {"?", "/", "'", "!", ",", ":", "&", ".", "\""}

\* (mutant) Regex::replace: only the first match is replaced.
ReplaceDisallowed_FirstOnly(term) ==
    LET hits == {i \in 1..Len(term) : term[i] \in Disallowed}
    IN [i \in 1..Len(term) |->
          IF i \in hits /\ \A j \in hits : i <= j THEN "_" ELSE term[i]]

\* Regex::replace_all(term, "_") on DISALLOWED_CHARACTERS.
ReplaceDisallowed(term) ==
    [i \in 1..Len(term) |-> IF term[i] \in Disallowed THEN "_" ELSE term[i]]

\* char::to_lowercase on the letters of the model.
LowerChar(c) ==
    CASE c = "A" -> "a"
      [] c = "B" -> "b"
      [] OTHER -> c

\* str::to_lowercase.
ToLowercase(str) == [i \in 1..Len(str) |-> LowerChar(str[i])]

normalize_search_term(term) == ToLowercase(ReplaceDisallowed(term))

\* str::split("*"): the pieces between the separators, empty ones included.
RECURSIVE SplitStar(_)
SplitStar(str) ==
    LET stars == {i \in 1..Len(str) : str[i] = "*"}
    IN IF stars = {}
          THEN <<str>>
          ELSE LET i == CHOOSE k \in stars : \A m \in stars : k <= m
               IN <<SubSeq(str, 1, i - 1)>> \o SplitStar(SubSeq(str, i + 1, Len(str)))

IsWhitespace(c) == c = " "

\* str::trim_start / str::trim_end / str::trim.
RECURSIVE TrimStart(_)
TrimStart(str) ==
    IF str # <<>> /\ IsWhitespace(Head(str)) THEN TrimStart(Tail(str)) ELSE str

RECURSIVE TrimEnd(_)
TrimEnd(str) ==
    IF str # <<>> /\ IsWhitespace(str[Len(str)])
       THEN TrimEnd(SubSeq(str, 1, Len(str) - 1))
       ELSE str

Trim(str) == TrimEnd(TrimStart(str))

\* str::contains(needle): the haystack is scanned from each start position.
RECURSIVE ContainsFrom(_, _, _)
ContainsFrom(hay, needle, from) ==
    IF from + Len(needle) - 1 > Len(hay)
       THEN FALSE
       ELSE IF SubSeq(hay, from, from + Len(needle) - 1) = needle
               THEN TRUE
               ELSE ContainsFrom(hay, needle, from + 1)

Contains(hay, needle) == ContainsFrom(hay, needle, 1)

\* (mutant) the sub-terms are not trimmed before matching.
TermsAllIn_NoTrim(terms, field) ==
    \A i \in 1..Len(terms) : Contains(field, terms[i])

\* for term in query.split("*") { if !field.contains(term.trim()) { return false } } true
RECURSIVE TermsAllIn(_, _)
TermsAllIn(terms, field) ==
    IF terms = <<>>
       THEN TRUE
       ELSE IF ~Contains(field, Trim(Head(terms)))
               THEN FALSE
               ELSE TermsAllIn(Tail(terms), field)

\* Option::unwrap_or_default.
UnwrapOrDefault(q) == IF q.some THEN q.str ELSE <<>>

\* cards.iter().filter(|card| ..): the cards whose normalized field (name or
\* desc) contains every trimmed piece of the normalized query, in order.
RECURSIVE FilterBy(_, _, _)
FilterBy(cards, query, field) ==
    IF cards = <<>>
       THEN <<>>
       ELSE (IF TermsAllIn(SplitStar(query), normalize_search_term(Head(cards)[field]))
                THEN <<Head(cards)>>
                ELSE <<>>)
               \o FilterBy(Tail(cards), query, field)

\* Data::filter_cards on the snapshot `cards`.
filter_cards(cards, nameArg, effectArg) ==
    LET name == normalize_search_term(UnwrapOrDefault(nameArg))
        effect == normalize_search_term(UnwrapOrDefault(effectArg))
    IN FilterBy(FilterBy(cards, name, "name"), effect, "desc")

\* The cards snapshots are built from (name, desc of CardDatum).
CardPool ==
    { [name |-> <<"A", "'", "b">>, desc |-> <<"a", " ", "B">>],
      [name |-> <<"a", "b">>,      desc |-> <<"B", ".">>],
      [name |-> <<"B", " ", "a">>, desc |-> <<>>] }

Snapshots == StringsUpTo(CardPool, MaxCards)

\* The arguments of filter_cards that are enumerated: one query of any shape
\* up to MaxQueryLen, the other from a short list.
AnyQuery == {None} \cup {Some(q) : q \in StringsUpTo(QueryChars, MaxQueryLen)}
FewQueries == {None, Some(<<>>), Some(<<"b">>), Some(<<" ", "*", "_">>)}
FilterArgs == (AnyQuery \X FewQueries) \cup (FewQueries \X AnyQuery)

FltIdle(cards) ==
    [pc |-> "idle", cards |-> cards, name |-> None, effect |-> None, result |-> <<>>]

\* ------------------------------------------------------------------ normalize
\* Longest text normalized.
MaxTextLen == 3
\* The characters of the texts normalized: letters of both cases, disallowed
\* punctuation, the replacement character, the term separator and a blank.
NormChars == {"a", "A", "b", "B", "'", ".", "_", "*", " "}
Texts == StringsUpTo(NormChars, MaxTextLen)

NrmIdle == [pc |-> "idle", input |-> <<>>, once |-> <<>>, twice |-> <<>>]

\* ------------------------------------------------------------------ ordering
\* The byte of each character of the model (str is compared byte-wise).
CharCode(c) ==
    CASE c = " "  -> 32
      [] c = "'"  -> 39
      [] c = "*"  -> 42
      [] c = "."  -> 46
      [] c = "A"  -> 65
      [] c = "B"  -> 66
      [] c = "_"  -> 95
      [] c = "a"  -> 97
      [] c = "b"  -> 98

\* Ord for str: a < b, lexicographic on the bytes, a proper prefix first.
StrLess(a, b) ==
    \E k \in 1..(Len(b)) :
        /\ k <= Len(a) + 1
        /\ \A i \in 1..(k - 1) : a[i] = b[i]
        /\ \/ k = Len(a) + 1
           \/ CharCode(a[k]) < CharCode(b[k])

\* (mutant) the order the elements came in.
StableOrder_Unsorted(keys) == [r \in 1..Len(keys) |-> r]

\* slice::sort_by / sort_by_key on string keys: the positions of the elements
\* in ascending order of key; the sort is stable, equal keys keep their order.
StableOrder(keys) ==
    LET n == Len(keys)
        rank == [i \in 1..n |->
                   1 + Cardinality({j \in 1..n :
                          \/ StrLess(keys[j], keys[i])
                          \/ keys[j] = keys[i] /\ j < i})]
    IN [r \in 1..n |-> CHOOSE i \in 1..n : rank[i] = r]

\* cards.sort_by(|a, b| a.name.cmp(&b.name))
SortByName(cards) ==
    LET order == StableOrder([i \in 1..Len(cards) |-> cards[i].name])
    IN [r \in 1..Len(cards) |-> cards[order[r]]]

\* (mutant) no cap.
Take_All(seq, n) == seq

\* Iterator::take(n)
Take(seq, n) == SubSeq(seq, 1, IF Len(seq) < n THEN Len(seq) ELSE n)

\* ------------------------------------------------------------------ get_reply
\* The number of names a "Multiple matches found" reply lists at most.
ReplyCap == 25
\* Longest snapshot searched by get_reply.
MaxReplyCards == 27

\* The letters card names are built from here, in no particular order.
NameLetters == <<"b", "B", "a", "'">>
\* The k-th card: three letters of NameLetters, and a one-letter desc.
NthCard(k) ==
    [name |-> <<NameLetters[(k % 4) + 1], NameLetters[((k \div 4) % 4) + 1],
                NameLetters[((k \div 16) % 4) + 1]>>,
     desc |-> <<NameLetters[(k % 3) + 1]>>]
\* A snapshot of n cards with different names, not sorted by name.
ReplySnapshot(n, from) == [i \in 1..n |-> NthCard((from + 7 * i) % 64)]
ReplyStarts == {0, 5, 22}
ReplyNames == {None, Some(<<"a">>), Some(<<"A", "*", "'">>), Some(<<"b", "a", "b">>),
               Some(<<"*">>)}
ReplyEffects == {None, Some(<<"b">>)}

\* Data::get_reply on the snapshot `cards`: the embed it builds.
get_reply(cards, nameArg, effectArg) ==
    LET sorted == SortByName(filter_cards(cards, nameArg, effectArg))
    IN CASE Len(sorted) = 0 -> [kind |-> "none", card |-> <<>>, names |-> <<>>]
         [] Len(sorted) = 1 -> [kind |-> "detail", card |-> <<sorted[1]>>, names |-> <<>>]
         [] OTHER ->
              LET listed == Take(sorted, ReplyCap)
              IN [kind |-> "multiple", card |-> <<>>,
                  names |-> [i \in 1..Len(listed) |-> listed[i].name]]

RplIdle == [pc |-> "idle", cards |-> <<>>, name |-> None, effect |-> None,
            reply |-> [kind |-> "none", card |-> <<>>, names |-> <<>>]]

\* ------------------------------------------------------------------ check_deck report
\* Longest main deck enumerated.
MaxGroupLen == 3

\* HashMap::new()
EmptyMap == [c \in {} |-> 0]

\* (mutant) the entry is inserted once and not counted further.
Bump_Once(invalids, card) ==
    IF card \in DOMAIN invalids THEN invalids ELSE invalids @@ (card :> 1)

\* *invalids.entry(card).or_default() += 1
Bump(invalids, card) ==
    IF card \in DOMAIN invalids
       THEN [invalids EXCEPT ![card] = @ + 1]
       ELSE invalids @@ (card :> 1)

\* for card in cards { if !valid_cards.contains(&card.name) { .. } }
RECURSIVE TrackFrom(_, _, _)
TrackFrom(valid_cards, cards, acc) ==
    IF cards = <<>>
       THEN acc
       ELSE TrackFrom(valid_cards, Tail(cards),
                IF Head(cards).name \notin valid_cards
                   THEN [invalids |-> Bump(acc.invalids, Head(cards)),
                         invalid_count |-> acc.invalid_count + 1]
                   ELSE acc)

\* check_deck::track_invalids: (invalids, invalid_count)
track_invalids(valid_cards, cards) ==
    TrackFrom(valid_cards, cards, [invalids |-> EmptyMap, invalid_count |-> 0])

\* The orders in which HashMap::into_iter can yield the keys of the map: any
\* (the hasher is seeded at random for each map).
IterOrders(invalids) ==
    LET keys == DOMAIN invalids
    IN {f \in [1..Cardinality(keys) -> keys] :
            \A i, j \in 1..Cardinality(keys) : i # j => f[i] # f[j]}

\* The lines of the message.  "This deck is valid."
ValidLine ==
    [kind |-> "valid", group |-> "", name |-> <<>>, custom |-> None, count |-> 0]
\* "# This deck has the following {count} invalid cards:"
TitleLine(count) ==
    [kind |-> "title", group |-> "", name |-> <<>>, custom |-> None, count |-> count]
\* "## {group} deck includes {count} invalid cards:"
GroupLine(group, count) ==
    [kind |-> "group", group |-> group, name |-> <<>>, custom |-> None, count |-> count]
\* "- **{name}**{ *(custom by: {username})*} x {count}": the line shows the
\* name, the username if there is one, and the count, and nothing else of the card.
EntryLine(card, count) ==
    [kind |-> "entry", group |-> "", name |-> card.name, custom |-> card.username,
     count |-> count]

\* check_deck::add_invalids: the lines pushed for one group, `iter` being the
\* order in which invalids.into_iter() yields the cards.
add_invalids(group, invalids, invalid_count, iter) ==
    IF DOMAIN invalids = {}
       THEN <<>>
       ELSE LET entries == [i \in 1..Len(iter) |-> <<iter[i], invalids[iter[i]]>>]
                order == StableOrder([i \in 1..Len(entries) |-> entries[i][1].name])
            IN <<GroupLine(group, invalid_count)>>
               \o [r \in 1..Len(entries) |->
                     EntryLine(entries[order[r]][1], entries[order[r]][2])]

\* check_deck, lines 340-355: the message built from the three tracked groups.
DeckMessage(main, side, extra, iterMain, iterSide, iterExtra) ==
    IF DOMAIN main.invalids = {} /\ DOMAIN side.invalids = {} /\ DOMAIN extra.invalids = {}
       THEN <<ValidLine>>
       ELSE <<TitleLine(main.invalid_count + side.invalid_count + extra.invalid_count)>>
            \o add_invalids("Main", main.invalids, main.invalid_count, iterMain)
            \o add_invalids("Side", side.invalids, side.invalid_count, iterSide)
            \o add_invalids("Extra", extra.invalids, extra.invalid_count, iterExtra)

\* DuelingBookCard (id, name, username): two different cards of one name, one
\* of them custom, and a card of another name.
DeckPool ==
    { [id |-> 1, name |-> <<"a">>, username |-> None],
      [id |-> 2, name |-> <<"a">>, username |-> Some(<<"b">>)],
      [id |-> 3, name |-> <<"B">>, username |-> None] }
\* DuelingBookDeck.main / side / extra
Mains == StringsUpTo(DeckPool, MaxGroupLen)
Sides == StringsUpTo(DeckPool, 1)
Extras ==
    { <<>>,
      <<[id |-> 2, name |-> <<"a">>, username |-> Some(<<"b">>)],
        [id |-> 1, name |-> <<"a">>, username |-> None]>>,
      <<[id |-> 3, name |-> <<"B">>, username |-> None],
        [id |-> 3, name |-> <<"B">>, username |-> None]>> }
\* valid_cards: the names of the cached cards.
ValidSets == SUBSET {<<"a">>, <<"B">>}
Groups == {"main", "side", "extra"}

NotTracked == [invalids |-> EmptyMap, invalid_count |-> 0]
DckIdle ==
    [pc |-> "idle", valid |-> {}, deck |-> [main |-> <<>>, side |-> <<>>, extra |-> <<>>],
     tracked |-> [main |-> NotTracked, side |-> NotTracked, extra |-> NotTracked],
     report |-> <<>>, prev |-> <<>>]

VARIABLES
    now,        \* Utc::now()
    expires_at, \* FreshData.data .0
    value,      \* FreshData.data .1 (number of the refresh that installed it)
    writer,     \* task holding the RwLock write guard, or NoTask
    readers,    \* tasks holding an RwLock read guard
    queue,      \* tasks waiting for the RwLock, in arrival order
    pc,         \* where each task is in its operation
    op,         \* the operation each task is running
    hasId,      \* check_deck: whether the url argument has an `id` query pair
    outcome,    \* how each task's last operation ended
    net,        \* network calls (producer GET, deck POST) made by the task's operation
    callExp,    \* history: expires_at when the task called get(), if then due; else -1
    installed,  \* history: the (expires_at, value) pair of the last completed install
    calls,      \* history: one record per producer invocation made by get()
    flt,        \* filter_cards as a function: its snapshot, arguments and result
    nrm,        \* normalize_search_term as a function: its input and results
    rpl,        \* get_reply as a function: its snapshot, arguments and reply
    dck         \* the report of check_deck as a function of valid_cards and the deck

vars == <<now, expires_at, value, writer, readers, queue, pc, op, hasId,
          outcome, net, callExp, installed, calls, flt, nrm, rpl, dck>>

\* The variables of the cache and its tasks, and those of the pure functions.
cacheAll == <<now, expires_at, value, writer, readers, queue, pc, op, hasId,
              outcome, net, callExp, installed, calls>>
pureVars == <<flt, nrm, rpl, dck>>
lockVars == <<writer, readers, queue>>
cacheVars == <<expires_at, value, installed>>
opVars == <<op, hasId>>

\* -------------------------------------------------------------- lock
\* tokio::sync::RwLock: fair, granted in FIFO order.  A write guard needs the
\* lock free of readers and writers, a read guard needs it free of writers.
\* (mutant) write() granted although another write guard is out.
WriteFree_IgnoresWriter == readers = {}
\* (mutant) write() granted although read guards are out.
WriteFree_IgnoresReaders == writer = NoTask
WriteFree == writer = NoTask /\ readers = {}
\* (mutant) read() granted although a write guard is out.
ReadFree_IgnoresWriter == TRUE
ReadFree == writer = NoTask

AtHead(t) == Len(queue) > 0 /\ Head(queue) = t

\* The index in calls of the refresh in progress (its exclusive section has
\* not ended).
Running ==
    LET run == {i \in 1..Len(calls) : calls[i].end = -1}
    IN CHOOSE i \in run : \A j \in run : j <= i

\* -------------------------------------------------------------- Init
\* FreshData::new: the producer has run once, expires_at = now + frequency.
CacheInit ==
    /\ now = 0
    /\ expires_at = 0 + Frequency
    /\ value = 0
    /\ writer = NoTask
    /\ readers = {}
    /\ queue = <<>>
    /\ pc = [t \in Tasks |-> "idle"]
    /\ op = [t \in Tasks |-> "filter_cards"]
    /\ hasId = [t \in Tasks |-> TRUE]
    /\ outcome = [t \in Tasks |-> "none"]
    /\ net = [t \in Tasks |-> 0]
    /\ callExp = [t \in Tasks |-> -1]
    /\ installed = <<0 + Frequency, 0>>
    /\ calls = <<>>

Init == CacheInit /\ flt = FltIdle(<<>>) /\ nrm = NrmIdle /\ rpl = RplIdle /\ dck = DckIdle

\* -------------------------------------------------------------- clock
Tick ==
    /\ now < MaxTime
    /\ now' = now + 1
    /\ UNCHANGED <<pureVars, cacheVars, lockVars, pc, opVars, outcome, net, callExp, calls>>

\* -------------------------------------------------------------- get(), entry
\* get() is called: self.data.write() is requested.
EnterGet(t) ==
    /\ pc' = [pc EXCEPT ![t] = "acqWrite"]
    /\ queue' = Append(queue, t)
    /\ callExp' = [callExp EXCEPT ![t] = IF now >= expires_at THEN expires_at ELSE -1]

\* The operation of task t ends with outcome r; its locals are dropped.
EndOp(t, r) ==
    /\ pc' = [pc EXCEPT ![t] = "idle"]
    /\ outcome' = [outcome EXCEPT ![t] = r]
    /\ callExp' = [callExp EXCEPT ![t] = -1]
    /\ op' = [op EXCEPT ![t] = "filter_cards"]
    /\ hasId' = [hasId EXCEPT ![t] = TRUE]

\* -------------------------------------------------------------- operations
\* A command or event starts an operation on a task.  filter_cards and
\* autocomplete_search call get() at once; check_deck first awaits
\* ctx.defer_ephemeral().
Call(t, o, id) ==
    /\ pc[t] = "idle"
    /\ Len(calls) + Cardinality({u \in Tasks : pc[u] \in {"defer", "acqWrite", "check"}}) < MaxCalls
    /\ op' = [op EXCEPT ![t] = o]
    /\ hasId' = [hasId EXCEPT ![t] = id]
    /\ outcome' = [outcome EXCEPT ![t] = "none"]
    /\ net' = [net EXCEPT ![t] = 0]
    /\ IF o = "check_deck"
          THEN /\ pc' = [pc EXCEPT ![t] = "defer"]
               /\ UNCHANGED <<queue, callExp>>
          ELSE EnterGet(t)
    /\ UNCHANGED <<pureVars, now, cacheVars, writer, readers, calls>>

\* check_deck: ctx.defer_ephemeral().await? succeeded; get() is called.
Deferred(t) ==
    /\ pc[t] = "defer"
    /\ EnterGet(t)
    /\ UNCHANGED <<pureVars, now, cacheVars, writer, readers, opVars, outcome, net, calls>>

\* check_deck: ctx.defer_ephemeral().await? failed; the error is returned.
DeferFailed(t) ==
    /\ pc[t] = "defer"
    /\ EndOp(t, "error")
    /\ UNCHANGED <<pureVars, now, cacheVars, lockVars, net, calls>>

\* -------------------------------------------------------------- get()
\* self.data.write().await completes.
GrantWrite(t) ==
    /\ pc[t] = "acqWrite"
    /\ AtHead(t)
    /\ WriteFree
    /\ writer' = t
    /\ queue' = Tail(queue)
    /\ pc' = [pc EXCEPT ![t] = "check"]
    /\ UNCHANGED <<pureVars, now, cacheVars, readers, opVars, outcome, net, callExp, calls>>

\* (mutant) the write guard is dropped before the producer is awaited.
CheckDue_DropsGuard(t) ==
    /\ pc[t] = "check"
    /\ now >= expires_at
    /\ writer' = NoTask
    /\ pc' = [pc EXCEPT ![t] = "refresh"]
    /\ net' = [net EXCEPT ![t] = @ + 1]
    /\ calls' = Append(calls, [sawExp |-> expires_at, start |-> now,
                               end |-> -1, status |-> "running"])
    /\ UNCHANGED <<pureVars, now, cacheVars, readers, queue, opVars, outcome, callExp>>

\* (mutant) the refresh is started one tick before expires_at.
CheckDue_Eager(t) ==
    /\ pc[t] = "check"
    /\ now >= expires_at - 1
    /\ pc' = [pc EXCEPT ![t] = "refresh"]
    /\ net' = [net EXCEPT ![t] = @ + 1]
    /\ calls' = Append(calls, [sawExp |-> expires_at, start |-> now,
                               end |-> -1, status |-> "running"])
    /\ UNCHANGED <<pureVars, now, cacheVars, lockVars, opVars, outcome, callExp>>

\* if Utc::now() >= lock.0, taken: the producer is called and awaited.
CheckDue(t) ==
    /\ pc[t] = "check"
    /\ now >= expires_at
    /\ pc' = [pc EXCEPT ![t] = "refresh"]
    /\ net' = [net EXCEPT ![t] = @ + 1]
    /\ calls' = Append(calls, [sawExp |-> expires_at, start |-> now,
                               end |-> -1, status |-> "running"])
    /\ UNCHANGED <<pureVars, now, cacheVars, lockVars, opVars, outcome, callExp>>

\* (mutant) a check that finds the value fresh pushes expires_at forward.
CheckFresh_Extends(t) ==
    /\ pc[t] = "check"
    /\ now < expires_at
    /\ expires_at' = now + Frequency
    /\ installed' = <<now + Frequency, value>>
    /\ writer' = NoTask
    /\ queue' = Append(queue, t)
    /\ pc' = [pc EXCEPT ![t] = "acqRead"]
    /\ UNCHANGED <<pureVars, now, value, readers, opVars, outcome, net, callExp, calls>>

\* if Utc::now() >= lock.0, not taken: the write guard is dropped at the end
\* of the block and self.data.read() is requested.
CheckFresh(t) ==
    /\ pc[t] = "check"
    /\ now < expires_at
    /\ writer' = NoTask
    /\ queue' = Append(queue, t)
    /\ pc' = [pc EXCEPT ![t] = "acqRead"]
    /\ UNCHANGED <<pureVars, now, cacheVars, readers, opVars, outcome, net, callExp, calls>>

\* lock.1 = (self.refresh)().await: the producer returned a new dataset.
ProducerReturn(t) ==
    /\ pc[t] = "refresh"
    /\ value' = value + 1
    /\ pc' = [pc EXCEPT ![t] = "setExpiry"]
    /\ calls' = [calls EXCEPT ![Running] = [@ EXCEPT !.status = "ok"]]
    /\ UNCHANGED <<pureVars, now, expires_at, installed, lockVars, opVars, outcome, net, callExp>>

\* (mutant) lock.0 is not assigned after the refresh.
SetExpiry_NoAdvance(t) ==
    /\ pc[t] = "setExpiry"
    /\ installed' = <<expires_at, value>>
    /\ writer' = NoTask
    /\ queue' = Append(queue, t)
    /\ pc' = [pc EXCEPT ![t] = "acqRead"]
    /\ calls' = [calls EXCEPT ![Running] = [@ EXCEPT !.end = now]]
    /\ UNCHANGED <<pureVars, now, expires_at, value, readers, opVars, outcome, net, callExp>>

\* (mutant) lock.0 is computed from the time of the expiry check, not from the
\* time the producer returned.
SetExpiry_FromCheckTime(t) ==
    /\ pc[t] = "setExpiry"
    /\ expires_at' = calls[Running].start + Frequency
    /\ installed' = <<calls[Running].start + Frequency, value>>
    /\ writer' = NoTask
    /\ queue' = Append(queue, t)
    /\ pc' = [pc EXCEPT ![t] = "acqRead"]
    /\ calls' = [calls EXCEPT ![Running] = [@ EXCEPT !.end = now]]
    /\ UNCHANGED <<pureVars, now, value, readers, opVars, outcome, net, callExp>>

\* lock.0 = Utc::now() + self.frequency; then the write guard is dropped and
\* self.data.read() is requested.
SetExpiry(t) ==
    /\ pc[t] = "setExpiry"
    /\ expires_at' = now + Frequency
    /\ installed' = <<now + Frequency, value>>
    /\ writer' = NoTask
    /\ queue' = Append(queue, t)
    /\ pc' = [pc EXCEPT ![t] = "acqRead"]
    /\ calls' = [calls EXCEPT ![Running] = [@ EXCEPT !.end = now]]
    /\ UNCHANGED <<pureVars, now, value, readers, opVars, outcome, net, callExp>>

\* (mutant) the write guard is not released when the producer panics.
ProducerFail_KeepsLock(t) ==
    /\ pc[t] = "refresh"
    /\ EndOp(t, "panic")
    /\ calls' = [calls EXCEPT ![Running] = [@ EXCEPT !.end = now, !.status = "failed"]]
    /\ UNCHANGED <<pureVars, now, cacheVars, lockVars, net>>

\* (mutant) a failed refresh still pushes expires_at forward.
ProducerFail_AdvancesExpiry(t) ==
    /\ pc[t] = "refresh"
    /\ writer' = NoTask
    /\ expires_at' = now + Frequency
    /\ installed' = <<now + Frequency, value>>
    /\ EndOp(t, "panic")
    /\ calls' = [calls EXCEPT ![Running] = [@ EXCEPT !.end = now, !.status = "failed"]]
    /\ UNCHANGED <<pureVars, now, value, readers, queue, net>>

\* The producer failed: .expect(..) panics inside (self.refresh)().await.  The
\* unwinding drops the write guard (tokio's RwLock is not poisoned) before
\* lock.1 or lock.0 is assigned, and ends the task's operation.
ProducerFail(t) ==
    /\ pc[t] = "refresh"
    /\ writer' = NoTask
    /\ EndOp(t, "panic")
    /\ calls' = [calls EXCEPT ![Running] = [@ EXCEPT !.end = now, !.status = "failed"]]
    /\ UNCHANGED <<pureVars, now, cacheVars, readers, queue, net>>

\* self.data.read().await completes; get() returns the mapped read guard.
GrantRead(t) ==
    /\ pc[t] = "acqRead"
    /\ AtHead(t)
    /\ ReadFree
    /\ readers' = readers \cup {t}
    /\ queue' = Tail(queue)
    /\ pc' = [pc EXCEPT ![t] = "handle"]
    /\ UNCHANGED <<pureVars, now, cacheVars, writer, opVars, outcome, net, callExp, calls>>

\* -------------------------------------------------------------- readers
\* (mutant) the read guard is not dropped when the function returns.
Finish_KeepsGuard(t) ==
    /\ pc[t] = "handle"
    /\ op[t] = "filter_cards"
    /\ EndOp(t, "ok")
    /\ UNCHANGED <<pureVars, now, cacheVars, lockVars, net, calls>>

\* filter_cards / autocomplete_search: the snapshot is filtered synchronously
\* and the read guard is dropped when the function returns.
Finish(t) ==
    /\ pc[t] = "handle"
    /\ op[t] = "filter_cards"
    /\ readers' = readers \ {t}
    /\ EndOp(t, "ok")
    /\ UNCHANGED <<pureVars, now, cacheVars, writer, queue, net, calls>>

\* check_deck: valid_cards is collected, then get_deck(url) finds no `id`
\* query pair and returns the error; `?` returns it and drops the guard.
DeckNoId(t) ==
    /\ pc[t] = "handle"
    /\ op[t] = "check_deck"
    /\ ~hasId[t]
    /\ readers' = readers \ {t}
    /\ EndOp(t, "urlerr")
    /\ UNCHANGED <<pureVars, now, cacheVars, writer, queue, net, calls>>

\* check_deck: get_deck(url) finds the id and awaits the POST to LOAD_DECK;
\* the read guard `data` is still in scope.
DeckPost(t) ==
    /\ pc[t] = "handle"
    /\ op[t] = "check_deck"
    /\ hasId[t]
    /\ pc' = [pc EXCEPT ![t] = "deckFetch"]
    /\ net' = [net EXCEPT ![t] = @ + 1]
    /\ UNCHANGED <<pureVars, now, cacheVars, lockVars, opVars, outcome, callExp, calls>>

\* check_deck: the deck arrived and decoded; track_invalids and the report are
\* computed synchronously and ctx.reply(msg) is awaited, `data` still in scope.
DeckFetched(t) ==
    /\ pc[t] = "deckFetch"
    /\ pc' = [pc EXCEPT ![t] = "reply"]
    /\ UNCHANGED <<pureVars, now, cacheVars, lockVars, opVars, outcome, net, callExp, calls>>

\* check_deck: the POST, the body read or the decoding failed; `?` returns the
\* error and drops the guard.
DeckFetchFailed(t) ==
    /\ pc[t] = "deckFetch"
    /\ readers' = readers \ {t}
    /\ EndOp(t, "error")
    /\ UNCHANGED <<pureVars, now, cacheVars, writer, queue, net, calls>>

\* check_deck: ctx.reply(msg).await? completed (r = "ok") or failed
\* (r = "error"); the function returns and drops the guard.
Replied(t, r) ==
    /\ pc[t] = "reply"
    /\ readers' = readers \ {t}
    /\ EndOp(t, r)
    /\ UNCHANGED <<pureVars, now, cacheVars, writer, queue, net, calls>>

Next ==
    \/ Tick
    \/ \E t \in Tasks, o \in Ops : Call(t, o, TRUE)
    \/ \E t \in Tasks : Call(t, "check_deck", FALSE)
    \/ \E t \in Tasks : Deferred(t)
    \/ \E t \in Tasks : DeferFailed(t)
    \/ \E t \in Tasks : GrantWrite(t)
    \/ \E t \in Tasks : CheckDue(t)
    \/ \E t \in Tasks : CheckFresh(t)
    \/ \E t \in Tasks : ProducerReturn(t)
    \/ \E t \in Tasks : SetExpiry(t)
    \/ \E t \in Tasks : ProducerFail(t)
    \/ \E t \in Tasks : GrantRead(t)
    \/ \E t \in Tasks : Finish(t)
    \/ \E t \in Tasks : DeckNoId(t)
    \/ \E t \in Tasks : DeckPost(t)
    \/ \E t \in Tasks : DeckFetched(t)
    \/ \E t \in Tasks : DeckFetchFailed(t)
    \/ \E t \in Tasks, r \in {"ok", "error"} : Replied(t, r)

Spec == Init /\ [][Next]_vars

\* -------------------------------------------------------------- fairness
\* A step of task t other than the start of an operation: the lock grants a
\* request, the task runs on, or something it awaits (the defer, the producer
\* call, the deck fetch, the reply) completes or fails.
Proceed(t) ==
    \/ Deferred(t)
    \/ DeferFailed(t)
    \/ GrantWrite(t)
    \/ CheckDue(t)
    \/ CheckFresh(t)
    \/ ProducerReturn(t)
    \/ SetExpiry(t)
    \/ ProducerFail(t)
    \/ GrantRead(t)
    \/ Finish(t)
    \/ DeckNoId(t)
    \/ DeckPost(t)
    \/ DeckFetched(t)
    \/ DeckFetchFailed(t)
    \/ \E r \in {"ok", "error"} : Replied(t, r)

\* The tokio RwLock is fair and the runtime polls every task that can run;
\* every awaited call of a task ends.  Commands arrive, and the clock
\* advances, under no obligation.
Fairness == \A t \in Tasks : WF_vars(Proceed(t))

\* The tasks that run operations in the behaviours checked for progress.
LiveTasks == {"t1", "t2"}

NextLive ==
    \/ Tick
    \/ \E t \in LiveTasks, o \in Ops : Call(t, o, TRUE)
    \/ \E t \in LiveTasks : Call(t, "check_deck", FALSE)
    \/ \E t \in LiveTasks : Proceed(t)

SpecLive == Init /\ [][NextLive]_vars /\ Fairness

\* -------------------------------------------------------------- filter_cards
\* filter_cards as a function of the snapshot behind the read handle.
InitFilter ==
    /\ CacheInit
    /\ \E cards \in Snapshots : flt = FltIdle(cards)
    /\ nrm = NrmIdle
    /\ rpl = RplIdle
    /\ dck = DckIdle

FilterCards(nameArg, effectArg) ==
    /\ flt.pc = "idle"
    /\ flt' = [pc |-> "done", cards |-> flt.cards, name |-> nameArg, effect |-> effectArg,
               result |-> filter_cards(flt.cards, nameArg, effectArg)]
    /\ UNCHANGED <<cacheAll, nrm, rpl, dck>>

\* One call per behaviour: no arguments are drawn once the call has been made.
NextFilter ==
    \E args \in (IF flt.pc = "idle" THEN FilterArgs ELSE {}) : FilterCards(args[1], args[2])

SpecFilter == InitFilter /\ [][NextFilter]_vars

\* -------------------------------------------------------------- normalize_search_term
\* normalize_search_term applied to a text, and again to its own result.
InitNorm ==
    /\ CacheInit
    /\ flt = FltIdle(<<>>)
    /\ nrm = NrmIdle
    /\ rpl = RplIdle
    /\ dck = DckIdle

Normalize(text) ==
    /\ nrm.pc = "idle"
    /\ nrm' = [pc |-> "once", input |-> text, once |-> normalize_search_term(text),
               twice |-> <<>>]
    /\ UNCHANGED <<cacheAll, flt, rpl, dck>>

NormalizeAgain ==
    /\ nrm.pc = "once"
    /\ nrm' = [nrm EXCEPT !.pc = "twice", !.twice = normalize_search_term(nrm.once)]
    /\ UNCHANGED <<cacheAll, flt, rpl, dck>>

NextNorm ==
    \/ \E text \in (IF nrm.pc = "idle" THEN Texts ELSE {}) : Normalize(text)
    \/ NormalizeAgain

SpecNorm == InitNorm /\ [][NextNorm]_vars

\* -------------------------------------------------------------- get_reply
\* get_reply applied to a snapshot and a pair of search arguments.
InitReply ==
    /\ CacheInit
    /\ flt = FltIdle(<<>>)
    /\ nrm = NrmIdle
    /\ \E n \in 0..MaxReplyCards, from \in ReplyStarts :
          rpl = [RplIdle EXCEPT !.cards = ReplySnapshot(n, from)]
    /\ dck = DckIdle

GetReply(nameArg, effectArg) ==
    /\ rpl.pc = "idle"
    /\ rpl' = [rpl EXCEPT !.pc = "done", !.name = nameArg, !.effect = effectArg,
                          !.reply = get_reply(rpl.cards, nameArg, effectArg)]
    /\ UNCHANGED <<cacheAll, flt, nrm, dck>>

NextReply ==
    \E nameArg \in (IF rpl.pc = "idle" THEN ReplyNames ELSE {}), effectArg \in ReplyEffects :
        GetReply(nameArg, effectArg)

SpecReply == InitReply /\ [][NextReply]_vars

\* -------------------------------------------------------------- check_deck report
\* The message of check_deck for a set of valid names and a deck, built once
\* and then once more from the same inputs.
InitDeck ==
    /\ CacheInit
    /\ flt = FltIdle(<<>>)
    /\ nrm = NrmIdle
    /\ rpl = RplIdle
    /\ \E valid \in ValidSets, main \in Mains, side \in Sides, extra \in Extras :
          dck = [DckIdle EXCEPT !.valid = valid,
                                !.deck = [main |-> main, side |-> side, extra |-> extra]]

ValidateDeck ==
    /\ dck.pc \in {"idle", "done"}
    /\ LET main == track_invalids(dck.valid, dck.deck.main)
           side == track_invalids(dck.valid, dck.deck.side)
           extra == track_invalids(dck.valid, dck.deck.extra)
       IN \E iterMain \in IterOrders(main.invalids), iterSide \in IterOrders(side.invalids),
             iterExtra \in IterOrders(extra.invalids) :
             dck' = [dck EXCEPT
                       !.pc = IF dck.pc = "idle" THEN "done" ELSE "again",
                       !.tracked = [main |-> main, side |-> side, extra |-> extra],
                       !.prev = dck.report,
                       !.report = DeckMessage(main, side, extra,
                                              iterMain, iterSide, iterExtra)]
    /\ UNCHANGED <<cacheAll, flt, nrm, rpl>>

NextDeck == ValidateDeck

SpecDeck == InitDeck /\ [][NextDeck]_vars

\* ================================================================ claims
\* Tasks that hold the write guard, between write().await and its drop.
InExclusive == {t \in Tasks : pc[t] \in {"check", "refresh", "setExpiry"}}
\* Tasks whose get() has left its exclusive section without failing.
PastExclusive == {t \in Tasks : pc[t] \in {"acqRead", "handle", "deckFetch", "reply"}}
\* Tasks that hold a read handle returned by get().
Holding == {t \in Tasks : pc[t] \in {"handle", "deckFetch", "reply"}}
\* A producer call has failed and none has returned a value since.
AfterFailure ==
    /\ Len(calls) > 0
    /\ \/ calls[Len(calls)].status = "failed"
       \/ /\ calls[Len(calls)].status = "running"
          /\ Len(calls) > 1
          /\ calls[Len(calls) - 1].status = "failed"
\* Task t leaves the expiry check in this step.
LeavesCheck(t) == pc[t] = "check" /\ pc'[t] # "check"
\* The producer call of task t ends in this step without returning a dataset.
ProducerFails(t) == pc[t] = "refresh" /\ pc'[t] \notin {"refresh", "setExpiry"}

\* ---------------------------------------------------------------- C1
\* C1: at most one producer invocation is in flight at any time; while one is,
\* its task holds the write guard and no other task is inside get()'s
\* exclusive section, so a get() that arrived meanwhile has not started its
\* own producer call.
C1_OneRefreshInFlight ==
    /\ Cardinality({t \in Tasks : pc[t] = "refresh"}) <= 1
    /\ Cardinality({i \in 1..Len(calls) : calls[i].status = "running"}) <= 1
    /\ \A t \in Tasks : pc[t] = "refresh" => writer = t /\ InExclusive = {t}

\* A refresh is in flight and another get(), called when due, waits for the lock.
C1_Witness ==
    \E t, u \in Tasks :
        /\ t # u
        /\ pc[t] = "refresh"
        /\ pc[u] = "acqWrite"
        /\ callExp[u] >= 0

\* ---------------------------------------------------------------- C2
\* C2: for every task that called get() at or after expires_at = E and has
\* left the exclusive section, if no producer call on E failed then exactly
\* one producer call was made on E (by the first task to check) and it
\* succeeded; and no producer call starts less than one interval after a
\* successful refresh completed.
C2_ExactlyOneRefresh ==
    /\ \A t \in PastExclusive :
          callExp[t] >= 0 =>
            LET onE == {i \in 1..Len(calls) : calls[i].sawExp = callExp[t]}
            IN (\A i \in onE : calls[i].status # "failed")
                  => /\ Cardinality(onE) = 1
                     /\ \A i \in onE : calls[i].status = "ok" /\ calls[i].end >= 0
                     /\ expires_at > callExp[t]
    /\ \A i, j \in 1..Len(calls) :
          (i < j /\ calls[i].status = "ok")
             => /\ calls[i].end >= 0
                /\ calls[j].start >= calls[i].end + Frequency

\* Two tasks called get() when due on the same expiry and both have left the
\* exclusive section; one producer call was made.
C2_Witness ==
    \E t, u \in PastExclusive :
        /\ t # u
        /\ callExp[t] >= 0
        /\ callExp[u] = callExp[t]
        /\ Len(calls) = 1
        /\ calls[1].status = "ok"

\* ---------------------------------------------------------------- C3
\* C3: while any task holds a read handle, no task is in the exclusive section
\* (neither value nor expires_at is being changed) and (expires_at, value) is
\* the pair written by one completed initialize or refresh.
C3_SnapshotAtomic ==
    (Holding # {} \/ readers # {})
       => /\ writer = NoTask
          /\ InExclusive = {}
          /\ <<expires_at, value>> = installed
          /\ Holding = readers

\* A task holds a handle on a refreshed snapshot while another get() is
\* waiting for exclusive access.
C3_Witness ==
    \E t, u \in Tasks :
        /\ pc[t] = "handle"
        /\ value > 0
        /\ pc[u] = "acqWrite"

\* ---------------------------------------------------------------- C4
\* C4: when the producer fails during a due refresh, the task that invoked it
\* gets the failure (its operation ends with the panic), value and expires_at
\* are unchanged, and the write guard is released: no guard is held and the
\* waiting tasks are still queued.
C4_FailureLeavesCache ==
    [][\A t \in Tasks :
          ProducerFails(t)
             => /\ pc'[t] = "idle"
                /\ outcome'[t] = "panic"
                /\ \A u \in Tasks \ {t} : outcome'[u] = outcome[u] /\ pc'[u] = pc[u]
                /\ value' = value
                /\ expires_at' = expires_at
                /\ <<expires_at', value'>> = installed'
                /\ writer = t
                /\ writer' = NoTask
                /\ readers' = {}
                /\ queue' = queue]_vars

\* A refresh has failed, and afterwards another task got through get() to a
\* read handle.
C4_Witness ==
    \E t, u \in Tasks :
        /\ outcome[t] = "panic"
        /\ pc[t] = "idle"
        /\ calls[Len(calls)].status = "failed"
        /\ <<expires_at, value>> = <<calls[Len(calls)].sawExp, 0>>
        /\ pc[u] = "acqWrite"
        /\ writer = NoTask

\* ---------------------------------------------------------------- C5
\* C5 as stated: after a refresh failure, operations keep succeeding on the
\* stale value until a refresh succeeds, so no operation fails on the
\* producer call that follows a failed one.
C5_Original ==
    \A i \in 1..Len(calls) :
        (i > 1 /\ calls[i - 1].status = "failed") => calls[i].status # "failed"

\* C5 amended: after a refresh failure the previous (expires_at, value) stays
\* in the cache until a producer call returns, and the cache stays due; every
\* get() whose expiry check runs in that period invokes the producer again
\* instead of being served the stale value, and its operation fails, leaving
\* the cache as it was, if that call fails too.
C5_StaleKeptButRetried ==
    [][AfterFailure
          => /\ <<expires_at, value>> = installed
             /\ now >= expires_at
             /\ \A t \in Tasks :
                   /\ LeavesCheck(t) => pc'[t] = "refresh" /\ Len(calls') = Len(calls) + 1
                   /\ ProducerFails(t)
                         => /\ outcome'[t] = "panic"
                            /\ <<expires_at', value'>> = <<expires_at, value>>]_vars

\* A second producer call is in flight after a failed one, with the stale
\* pair still in place.
C5_Witness ==
    /\ Len(calls) = 2
    /\ calls[1].status = "failed"
    /\ calls[2].status = "running"
    /\ <<expires_at, value>> = <<Frequency, 0>>

\* ---------------------------------------------------------------- C6
\* C6: a failed get() ends without a second producer call of its own; after a
\* failure the cache is still due, so the next expiry check invokes the
\* producer; and the refresh that succeeds replaces the value and sets
\* expires_at to the time of that assignment plus the interval.
C6_RetryOnLaterGet ==
    [][\A t \in Tasks :
          /\ ProducerFails(t)
                => /\ pc'[t] = "idle"
                   /\ Len(calls') = Len(calls)
                   /\ now >= expires_at'
          /\ (AfterFailure /\ LeavesCheck(t))
                => /\ pc'[t] = "refresh"
                   /\ calls' = Append(calls, [sawExp |-> expires_at, start |-> now,
                                              end |-> -1, status |-> "running"])
          /\ (pc[t] = "refresh" /\ pc'[t] = "setExpiry")
                => value' # value /\ value' # installed[2]
          /\ (pc[t] = "setExpiry" /\ pc'[t] # "setExpiry")
                => /\ expires_at' = now + Frequency
                   /\ value' = value
                   /\ installed' = <<now + Frequency, value>>]_vars

\* A producer call failed, a later get() called it again, and that refresh
\* installed a new value with a new expiry.
C6_Witness ==
    /\ Len(calls) = 2
    /\ calls[1].status = "failed"
    /\ calls[2].status = "ok"
    /\ calls[2].end >= 0
    /\ value = 1
    /\ expires_at = calls[2].end + Frequency
    /\ calls[2].end > calls[2].start

\* ---------------------------------------------------------------- C7
\* C7: an expiry check that runs strictly before expires_at invokes no
\* producer (no call record, no network call), leaves (expires_at, value)
\* unchanged and goes on to request the read guard; and a handle, when
\* granted, is on the value of the last completed install.
C7_FreshGetLeavesCache ==
    [][\A t \in Tasks :
          /\ (LeavesCheck(t) /\ now < expires_at)
                => /\ pc'[t] = "acqRead"
                   /\ calls' = calls
                   /\ net' = net
                   /\ <<expires_at', value'>> = <<expires_at, value>>
                   /\ installed' = installed
          /\ (pc[t] = "acqRead" /\ pc'[t] = "handle")
                => /\ value' = installed[2]
                   /\ value' = value
                   /\ t \in readers']_vars

\* Two tasks hold handles on the refreshed value though the producer was
\* called once: one of them passed its check before expires_at.
C7_Witness ==
    \E t, u \in Tasks :
        /\ t # u
        /\ pc[t] = "handle"
        /\ pc[u] = "handle"
        /\ Len(calls) = 1
        /\ calls[1].status = "ok"
        /\ value = 1

\* ---------------------------------------------------------------- C8
\* C8: a check_deck whose url has no `id` query pair ends with the URL error
\* without having made a network call, whatever the state of the cache.
C8_UrlErrorWithoutNetwork ==
    \A t \in Tasks : outcome[t] = "urlerr" => net[t] = 0

\* ---------------------------------------------------------------- C9
\* C9: no task is suspended on the deck fetch or on the message send while it
\* holds a read handle on the snapshot.
C9_NoIoWhileHolding ==
    \A t \in readers : pc[t] \notin {"deckFetch", "reply"}
\* ---------------------------------------------------------------- C10
\* The sub-terms of a query: its maximal stretches without `*`, each cut down
\* to the stretch from its first to its last non-blank character.
Pieces(q) ==
    {SubSeq(q, i, j) : <<i, j>> \in
        {ij \in (1..Len(q) + 1) \X (0..Len(q)) :
            /\ ij[2] >= ij[1] - 1
            /\ \A k \in ij[1]..ij[2] : q[k] # "*"
            /\ (ij[1] = 1 \/ q[ij[1] - 1] = "*")
            /\ (ij[2] = Len(q) \/ q[ij[2] + 1] = "*")}}

Trimmed(str) ==
    LET ink == {k \in 1..Len(str) : str[k] # " "}
    IN IF ink = {}
          THEN <<>>
          ELSE SubSeq(str, CHOOSE k \in ink : \A m \in ink : k <= m,
                           CHOOSE k \in ink : \A m \in ink : k >= m)

IsSubstring(sub, str) ==
    \E off \in 0..Len(str) :
        /\ off + Len(sub) <= Len(str)
        /\ \A k \in 1..Len(sub) : str[off + k] = sub[k]

\* Every sub-term of the normalized query occurs in the normalized field.
QueryMatches(q, field) ==
    \A piece \in Pieces(normalize_search_term(IF q.some THEN q.str ELSE <<>>)) :
        IsSubstring(Trimmed(piece), normalize_search_term(field))

\* C10: filter_cards returns exactly the cards of the snapshot whose
\* normalized name contains every trimmed `*`-separated sub-term of the
\* normalized name query and whose normalized desc contains every such
\* sub-term of the normalized effect query, in snapshot order; an absent or
\* empty query excludes no card.
C10_FilterConjunction ==
    flt.pc = "done" =>
        LET cards == flt.cards
            kept == {i \in 1..Len(cards) :
                        /\ QueryMatches(flt.name, cards[i].name)
                        /\ QueryMatches(flt.effect, cards[i].desc)}
            blank(q) == ~q.some \/ q.str = <<>>
        IN /\ Len(flt.result) = Cardinality(kept)
           /\ \A i \in kept :
                 flt.result[Cardinality({j \in kept : j <= i})] = cards[i]
           /\ blank(flt.name)
                 => \A i \in 1..Len(cards) :
                       i \in kept <=> QueryMatches(flt.effect, cards[i].desc)
           /\ (blank(flt.name) /\ blank(flt.effect)) => flt.result = cards

\* A query of two sub-terms, one of them blank, keeps one card of two.
C10_Witness ==
    /\ flt.pc = "done"
    /\ flt.name.some
    /\ \E i, j \in 1..Len(flt.name.str) : flt.name.str[i] = "*" /\ flt.name.str[j] = " "
    /\ Len(flt.cards) = 2
    /\ Len(flt.result) = 1
    /\ flt.result[1] = flt.cards[2]

\* ---------------------------------------------------------------- C11
\* The text with every disallowed character deleted.
WithoutDisallowed(text) == SelectSeq(text, LAMBDA c : c \notin Disallowed)

\* C11: normalize(text) is text with every disallowed punctuation character
\* deleted and the rest lower-cased.
C11_DeletesPunctuation ==
    nrm.pc # "idle" => nrm.once = ToLowercase(WithoutDisallowed(nrm.input))

\* ---------------------------------------------------------------- C12
\* C12: normalizing a normalized text gives the same text again.
C12_Idempotent ==
    nrm.pc = "twice" => nrm.twice = nrm.once

\* A text with two disallowed characters and an upper-case letter has been
\* normalized twice; the first pass changed it.
C12_Witness ==
    /\ nrm.pc = "twice"
    /\ Cardinality({i \in 1..Len(nrm.input) : nrm.input[i] \in Disallowed}) = 2
    /\ \E i \in 1..Len(nrm.input) : nrm.input[i] = "B"
    /\ nrm.once # nrm.input
    /\ Len(nrm.once) = Len(nrm.input)

\* ---------------------------------------------------------------- C13
\* The cards of the snapshot that match the arguments of get_reply.
Matches == filter_cards(rpl.cards, rpl.name, rpl.effect)
\* How often a name occurs among the first n elements of a sequence of names.
Occurrences(names, v) == Cardinality({i \in 1..Len(names) : names[i] = v})
MatchNames == [i \in 1..Len(Matches) |-> Matches[i].name]

\* C13: no match gives the "no cards found" reply, one match that card's
\* detail, two or more a list of min(n, 25) names in ascending order that are
\* the least names of the matches, and no others.
C13_ReplyByCardinality ==
    rpl.pc = "done" =>
        LET matches == Matches
            n == Len(matches)
            matchNames == [i \in 1..n |-> matches[i].name]
            names == rpl.reply.names
        IN /\ n = 0 => rpl.reply.kind = "none"
           /\ n = 1 => rpl.reply.kind = "detail" /\ rpl.reply.card = <<matches[1]>>
           /\ n >= 2 =>
                /\ rpl.reply.kind = "multiple"
                /\ Len(names) = (IF n < 25 THEN n ELSE 25)
                /\ \A i \in 1..(Len(names) - 1) :
                      names[i] = names[i + 1] \/ StrLess(names[i], names[i + 1])
                /\ \A i \in 1..n :
                      LET v == matchNames[i]
                      IN /\ Occurrences(names, v) <= Occurrences(matchNames, v)
                         /\ Occurrences(names, v) < Occurrences(matchNames, v)
                               => ~StrLess(v, names[Len(names)])
                /\ \A i \in 1..Len(names) : Occurrences(matchNames, names[i]) > 0

\* More than 25 cards matched, they were not in name order, and the reply
\* lists 25 of them.
C13_Witness ==
    /\ rpl.pc = "done"
    /\ Len(rpl.reply.names) = 25
    /\ Len(Matches) > 25
    /\ \E i \in 1..(Len(Matches) - 1) : StrLess(MatchNames[i + 1], MatchNames[i])
    /\ rpl.reply.kind = "multiple"

\* ---------------------------------------------------------------- C14
\* The positions of a group whose card's name is not a valid name.
InvalidAt(valid, cards) == {i \in 1..Len(cards) : cards[i].name \notin valid}
\* The sum of the values of a map.
RECURSIVE SumValues(_)
SumValues(map) ==
    IF DOMAIN map = {}
       THEN 0
       ELSE LET k == CHOOSE c \in DOMAIN map : TRUE
            IN map[k] + SumValues([c \in (DOMAIN map) \ {k} |-> map[c]])

\* C14: for each group, the keys of the map are exactly the different cards
\* whose name is not valid, each with its number of occurrences; the count is
\* the sum of the values, the number of invalid copies; it is 0 iff the map is
\* empty; the valid names are left as they were.
C14_DiffCountsCopies ==
    [][dck.pc = "idle" =>
          /\ dck'.valid = dck.valid
          /\ \A g \in Groups :
                LET cards == dck.deck[g]
                    bad == InvalidAt(dck.valid, cards)
                    got == dck'.tracked[g]
                IN /\ DOMAIN got.invalids = {cards[i] : i \in bad}
                   /\ \A c \in DOMAIN got.invalids :
                         got.invalids[c] =
                            Cardinality({i \in 1..Len(cards) : cards[i] = c})
                   /\ got.invalid_count = SumValues(got.invalids)
                   /\ got.invalid_count = Cardinality(bad)
                   /\ got.invalid_count = 0 <=> DOMAIN got.invalids = {}]_vars

\* A main deck of three cards: a valid one and two copies of an invalid one,
\* counted as one key with 2 occurrences.
C14_Witness ==
    /\ dck.pc = "done"
    /\ Len(dck.deck.main) = 3
    /\ Cardinality(InvalidAt(dck.valid, dck.deck.main)) = 2
    /\ Cardinality(DOMAIN dck.tracked.main.invalids) = 1
    /\ dck.tracked.main.invalid_count = 2

\* ---------------------------------------------------------------- C15
\* The different invalid cards of a group.
InvalidCards(g) == {dck.deck[g][i] : i \in InvalidAt(dck.valid, dck.deck[g])}
CopiesOf(g, c) == Cardinality({i \in 1..Len(dck.deck[g]) : dck.deck[g][i] = c})
\* The ways to list the different invalid cards of a group in ascending order
\* of name.
AscendingListings(g) ==
    LET cards == InvalidCards(g)
        n == Cardinality(cards)
    IN {f \in [1..n -> cards] :
          /\ \A i, j \in 1..n : i # j => f[i] # f[j]
          /\ \A i \in 1..(n - 1) : ~StrLess(f[i + 1].name, f[i].name)}
\* The part of the report for one group, its cards listed as in `listing`.
Section(g, label, listing) ==
    IF InvalidCards(g) = {}
       THEN <<>>
       ELSE <<[kind |-> "group", group |-> label, name |-> <<>>, custom |-> None,
               count |-> Cardinality(InvalidAt(dck.valid, dck.deck[g]))]>>
            \o [i \in 1..Len(listing) |->
                  [kind |-> "entry", group |-> "", name |-> listing[i].name,
                   custom |-> listing[i].username, count |-> CopiesOf(g, listing[i])]]

C19_SameReportEveryRun ==
    dck.pc = "again" => dck.report = dck.prev

\* ---------------------------------------------------------------- C16
\* C16: as long as a producer call made by get() has not completed, its task
\* keeps the write guard, every other get() stays where it waits, no task is
\* granted the write guard or a read handle, and nothing but the completion
\* of that call (its return or its failure) ends the wait.
C16_HungProducerBlocksGet ==
    [][\A t \in Tasks :
          /\ (pc[t] = "refresh" /\ pc'[t] = "refresh")
                => /\ writer' = t
                   /\ calls'[Running].status = "running"
                   /\ \A u \in Tasks \ {t} :
                         /\ pc[u] \in {"acqWrite", "acqRead"} => pc'[u] = pc[u]
                         /\ pc'[u] \notin {"check", "refresh", "setExpiry",
                                           "handle", "deckFetch", "reply"}
          /\ (pc[t] = "refresh" /\ pc'[t] # "refresh")
                => /\ calls'[Running].status \in {"ok", "failed"}
                   /\ pc'[t] \in {"setExpiry", "idle"}]_vars

\* A producer call has been pending for two ticks; one get() called since
\* waits for the write guard and another, past its own check, for a read guard.
C16_Witness ==
    \E t, u, w \in Tasks :
        /\ pc[t] = "refresh"
        /\ now >= calls[Running].start + 2
        /\ pc[u] = "acqWrite"
        /\ pc[w] = "acqRead"

\* ---------------------------------------------------------------- C17
\* C17: no producer call made by get() starts or runs while a read handle is
\* out: a task in the exclusive section holds the write guard with no reader,
\* and the write guard is granted only to the head of the queue when no read
\* handle and no write guard is out.  (Readers overlap: C17_Witness.)
C17_RefreshExcludesReaders ==
    [][\A t \in Tasks :
          /\ pc'[t] \in {"check", "refresh", "setExpiry"}
                => /\ readers' = {}
                   /\ \A u \in Tasks : pc'[u] \notin {"handle", "deckFetch", "reply"}
                   /\ writer' = t
          /\ (pc[t] # "refresh" /\ pc'[t] = "refresh")
                => readers = {} /\ readers' = {}
          /\ (pc[t] = "acqWrite" /\ pc'[t] # "acqWrite")
                => /\ pc'[t] = "check"
                   /\ readers = {}
                   /\ writer = NoTask
                   /\ Head(queue) = t]_vars

\* Two tasks hold read handles at the same time, one of them suspended on the
\* deck fetch, and a get() called when due waits behind them for the write guard.
C17_Witness ==
    \E t, u, w \in Tasks :
        /\ t # u
        /\ {t, u} \subseteq readers
        /\ pc[t] = "handle"
        /\ pc[u] = "deckFetch"
        /\ pc[w] = "acqWrite"
        /\ AtHead(w)
        /\ callExp[w] >= 0

\* ---------------------------------------------------------------- C20
\* The producer calls whose refresh has been installed.
Installs == {i \in 1..Len(calls) : calls[i].status = "ok" /\ calls[i].end >= 0}
\* The time of the last install: of FreshData::new, or of the last refresh.
LastInstall ==
    IF Installs = {} THEN 0
    ELSE calls[CHOOSE i \in Installs : \A j \in Installs : j <= i].end

\* C20: value changes only in the exclusive section of a get() that found the
\* cache due, when its producer call returns, and expires_at only in that
\* same section, to the time of the assignment plus the interval; a section
\* changes both or neither; expires_at never decreases; and outside the
\* exclusive section expires_at is the time of the last install plus the
\* interval, later than that install.
C20_CacheChangesOnlyOnRefresh ==
    [][/\ value' # value
            => \E t \in Tasks :
                  /\ writer = t /\ writer' = t
                  /\ pc[t] = "refresh" /\ pc'[t] = "setExpiry"
                  /\ now >= expires_at
                  /\ expires_at' = expires_at
       /\ expires_at' # expires_at
            => \E t \in Tasks :
                  /\ writer = t
                  /\ pc[t] = "setExpiry" /\ pc'[t] # "setExpiry"
                  /\ value # installed[2]
                  /\ value' = value
                  /\ expires_at' = now + Frequency
                  /\ calls'[Running].end = now
       /\ \A t \in Tasks :
             /\ (pc[t] = "setExpiry" /\ pc'[t] # "setExpiry") => expires_at' # expires_at
             /\ pc'[t] = "setExpiry" => value' # installed'[2] /\ writer' = t
       /\ expires_at' >= expires_at
       /\ (\A t \in Tasks : pc'[t] # "setExpiry")
            => /\ <<expires_at', value'>> = installed'
               /\ expires_at' = LastInstall' + Frequency
               /\ expires_at' > LastInstall'
               /\ value' = Cardinality(Installs')]_vars

\* Two refreshes have been installed, each pushing expires_at one interval
\* past its install.
C20_Witness ==
    /\ value = 2
    /\ Cardinality(Installs) = 2
    /\ writer = NoTask
    /\ expires_at = LastInstall + Frequency
    /\ expires_at > Frequency + Frequency - 1

\* ---------------------------------------------------------------- C18
\* Tasks whose get() call has not returned yet.
InGet == {t \in Tasks : pc[t] \in {"acqWrite", "check", "refresh", "setExpiry", "acqRead"}}
\* A task that holds a read handle has no request in the lock's queue: its
\* operation has not called get() again.
NoGetWhileHolding ==
    \A t \in Tasks :
        (t \in readers \/ pc[t] \in {"handle", "deckFetch", "reply"})
           => /\ t \notin InGet
              /\ \A i \in 1..Len(queue) : queue[i] # t

\* C18 as stated: no task calls get() while it holds a handle, and every
\* get() call eventually returns a handle.
C18_Original ==
    /\ []NoGetWhileHolding
    /\ \A t \in Tasks : (t \in InGet) ~> (pc[t] = "handle")

\* C18 amended: no task calls get() while it holds a handle, and every get()
\* call eventually returns a handle unless the producer call it made itself
\* ends in a panic, which ends the task's operation.
C18_GetReturnsOrPanics ==
    /\ []NoGetWhileHolding
    /\ \A t \in Tasks :
          (t \in InGet) ~> (pc[t] = "handle" \/ (pc[t] = "idle" /\ outcome[t] = "panic"))

\* A get() called when due holds its handle after the refresh it made, the
\* producer call before it having panicked in another task.
C18_Witness ==
    \E t, u \in Tasks :
        /\ pc[t] = "handle"
        /\ callExp[t] >= 0
        /\ outcome[u] = "panic"
        /\ Len(calls) = 2
        /\ calls[2].status = "ok"
        /\ value = 1
====
